---- MODULE Spec2Model ----
(***************************************************************************)
(* Chunk-manifest layer of the filer (weed/filer/filechunk_manifest.go):   *)
(* the replica fetcher (fetchWholeChunk, fetchChunkRange and their retry   *)
(* loops), the manifest resolver (ResolveChunkManifest) and the manifest   *)
(* builder (doMaybeManifestize, mergeIntoManifest).                        *)
(*                                                                         *)
(* The specifications share the module: SpecFetch runs one fetch call,     *)
(* SpecResolve one ResolveChunkManifest call (SpecResolveSteps the same    *)
(* call by call) and SpecCompact one doMaybeManifestize call, each keeping *)
(* the variables of the other components at their idle values;             *)
(* SpecCompactResolve resolves what a doMaybeManifestize call returned and *)
(* SpecCompactTwice calls doMaybeManifestize on it again.                  *)
(***************************************************************************)
EXTENDS Integers, Sequences, FiniteSets, TLC

\* ------------------------------------------------------------------ bounds
\* Length of the chunk content served by the transport.
ContentLen == 3
\* The lookup returns between 0 and MaxLocs locations.
MaxLocs == 2
\* util.RetryWaitTime ranges over half a second to MaxCeiling seconds, in
\* steps of half a second.
MaxCeiling == 6
\* FetchRange is called with a buffer of 0 .. MaxBuf bytes.
MaxBuf == 2
\* The model stops a retry loop that has slept MaxSleeps times (never reached
\* by the code's loops for the ceilings above).
MaxSleeps == 6
\* ResolveChunkManifest is called with at most MaxTop chunks.
MaxTop == 2
\* A stored manifest lists at most MaxKids chunks.
MaxKids == 2
\* doMaybeManifestize is called with at most MaxInput chunks,
MaxInput == 5
\* with a mergeFactor of 1 .. MaxMergeFactor,
MaxMergeFactor == 3
\* and a merge that fails, if any, is one of the first MaxFailAt.
MaxFailAt == 2
\* The stepwise resolver follows the recursion MaxDepth calls deep (the code
\* has no such limit; chunk trees without a cycle need three calls here).
MaxDepth == 4

\* --------------------------------------------------------------- constants
\* time.Second in model time units of 1/512 s. time.Second is 2^9 * 5^9 ns, so
\* waitTime / 2 is exact for the first nine rounds in both units.
Second == 512

\* The chunk's content: ContentLen distinct bytes.
Content == [i \in 1 .. ContentLen |-> i]

\* What the replica at location h serves to a range fetch: the content, with
\* every byte marked by the replica, so that a byte in the buffer shows which
\* attempt wrote it.
ReplicaContent(h) == [i \in 1 .. ContentLen |-> 10 * h + Content[i]]

Min(a, b) == IF a < b THEN a ELSE b
Max(a, b) == IF a > b THEN a ELSE b

\* The i-th location a lookup returns; every second one holds a "%".
Url(i) == [host |-> i, percent |-> (i % 2 = 0)]

\* Error values: nil, the lookup's error, and the error the transport reports
\* on the i-th attempt of a call (every attempt's error is a value of its own).
NilErr == [kind |-> "nil", of |-> 0]
LookupErr == [kind |-> "lookup", of |-> 0]
TransportErr(i) == [kind |-> "transport", of |-> i]
\* The errors of ResolveOneChunkManifest, which name the manifest's file id.
ReadManifestErr(fileId) == [kind |-> "fail to read manifest", of |-> fileId]
UnmarshalManifestErr(fileId) == [kind |-> "fail to unmarshal manifest", of |-> fileId]

VARIABLES
    mode,           \* "stream" (fetchWholeChunk), "range" (fetchChunkRange), "idle"
    RetryWaitTime,  \* util.RetryWaitTime, the backoff ceiling
    pc,             \* position of the fetch call
    urlStrings,     \* the lookup's result
    waitTime,       \* loop variable of the outer for
    urlIdx,         \* how many of urlStrings the inner range loop has taken
    shouldRetry,    \* var shouldRetry bool
    err,            \* the err result
    totalWritten,   \* var totalWritten int (stream)
    localProcesed,  \* var localProcesed int (stream, per attempt)
    writer,         \* bytes written to the io.Writer (stream)
    n,              \* the n result (range)
    buffer,         \* buffer []byte (range); 0 marks a byte never written
    offset,         \* the offset argument (range)
    streamPos,      \* transport: bytes the current attempt has delivered
    attemptLog,     \* history: the request of every attempt, in order
    retLog,         \* history: what every finished attempt returned
    sleepLog,       \* history: the duration of every time.Sleep
    resolvePc,      \* "call" before, "done" after ResolveChunkManifest; "idle"
    resolveIn,      \* its arguments: chunks, startOffset, stopOffset
    manifestStore,  \* what a fetch of each manifest chunk's file id yields
    resolveOut,     \* its results
    callStack,      \* the frames of the ResolveChunkManifest calls in progress
    compactPc,      \* "call" before, "done" after doMaybeManifestize; "idle"
    compactIn,      \* its arguments: inputChunks, mergeFactor
    savePlan,       \* how proto.Marshal and saveFunc behave during the call
    compactOut,     \* its results, and what it stored and merged
    compactAgain    \* the same of a second call, on the first call's result

fetchVars == <<mode, RetryWaitTime, pc, urlStrings, waitTime, urlIdx,
               shouldRetry, err, totalWritten, localProcesed, writer, n, buffer,
               offset, streamPos, attemptLog, retLog, sleepLog>>

resolveVars == <<resolvePc, resolveIn, manifestStore, resolveOut, callStack>>

compactVars == <<compactPc, compactIn, savePlan, compactOut, compactAgain>>

vars == <<fetchVars, resolveVars, compactVars>>

\* ------------------------------------------------------------ the fetcher

\* What a lookup can return: an error, or 0 .. MaxLocs locations.
LookupResults ==
    {[urls |-> <<>>, err |-> LookupErr]}
    \cup {[urls |-> [i \in 1 .. k |-> Url(i)], err |-> NilErr] : k \in 0 .. MaxLocs}

\* What the transport can return from the i-th attempt.
TransportReturns(i) == [shouldRetry : BOOLEAN, err : {NilErr, TransportErr(i)}]

RetryCeilings == {k * (Second \div 2) : k \in 1 .. 2 * MaxCeiling}

FetchIdle ==
    /\ mode = "idle" /\ RetryWaitTime = 0 /\ pc = "idle" /\ urlStrings = <<>>
    /\ waitTime = 0 /\ urlIdx = 0 /\ shouldRetry = FALSE /\ err = NilErr
    /\ totalWritten = 0 /\ localProcesed = 0 /\ writer = <<>> /\ n = 0
    /\ buffer = <<>> /\ offset = 0 /\ streamPos = 0 /\ attemptLog = <<>>
    /\ retLog = <<>> /\ sleepLog = <<>>

\* A call of fetchWholeChunk or of fetchChunkRange, before its lookup.
FetchInit ==
    /\ mode \in {"stream", "range"}
    /\ RetryWaitTime \in RetryCeilings
    /\ pc = "lookup"
    /\ urlStrings = <<>>
    /\ waitTime = 0 /\ urlIdx = 0 /\ shouldRetry = FALSE /\ err = NilErr
    /\ totalWritten = 0 /\ localProcesed = 0 /\ writer = <<>>
    /\ n = 0
    /\ IF mode = "range"
          THEN /\ offset \in 0 .. 1
               /\ \E len \in 0 .. MaxBuf : buffer = [i \in 1 .. len |-> 0]
          ELSE offset = 0 /\ buffer = <<>>
    /\ streamPos = 0
    /\ attemptLog = <<>> /\ retLog = <<>> /\ sleepLog = <<>>

\* The for statement's post statement: waitTime += waitTime / 2.
NextWaitNoGrowth(w) == w
NextWait(w) == w + (w \div 2)

\* The callback of retriedStreamFetchChunkData on one delivery `data`: the new
\* totalWritten, localProcesed and writer.
StreamCallbackNoSkip(tw, lp, w, data) ==
    [totalWritten |-> tw + Len(data), localProcesed |-> lp + Len(data),
     writer |-> w \o data]
StreamCallback(tw, lp, w, data) ==
    LET toBeSkipped == tw - lp IN
    IF tw > lp /\ Len(data) <= toBeSkipped
    THEN \* skip if already processed
         [totalWritten |-> tw, localProcesed |-> lp + Len(data), writer |-> w]
    ELSE LET rest == IF tw > lp
                     THEN SubSeq(data, toBeSkipped + 1, Len(data))
                     ELSE data
             lp1  == IF tw > lp THEN lp + toBeSkipped ELSE lp
         IN [totalWritten  |-> tw + Len(rest),
             localProcesed |-> lp1 + Len(rest),
             writer        |-> w \o rest]

\* The callback of retriedFetchChunkData on one delivery: the new n and buffer.
RangeCallbackCopiesToStart(n0, buf, data) ==
    IF n0 < Len(buf)
    THEN LET x == Min(Len(buf), Len(data)) IN
         [n |-> n0 + x,
          buffer |-> [i \in 1 .. Len(buf) |-> IF i <= x THEN data[i] ELSE buf[i]]]
    ELSE [n |-> n0, buffer |-> buf]
RangeCallback(n0, buf, data) ==
    IF n0 < Len(buf)
    THEN LET x == Min(Len(buf) - n0, Len(data)) IN
         [n |-> n0 + x,
          buffer |-> [i \in 1 .. Len(buf) |->
                        IF i > n0 /\ i <= n0 + x THEN data[i - n0] ELSE buf[i]]]
    ELSE [n |-> n0, buffer |-> buf]

\* Where the inner loop goes after an attempt returned (sr, e): "post" is the
\* code after the inner loop (a break), "inner" the next location.
StreamAfterAttemptNoBreak(sr, e) ==
    IF e # NilErr THEN "inner" ELSE "post"
StreamAfterAttempt(sr, e) ==
    IF ~sr THEN "post"
    ELSE IF e # NilErr THEN "inner"
    ELSE "post"

RangeAfterAttemptGoesOnAfterSuccess(sr, e) ==
    IF ~sr THEN "post" ELSE "inner"
RangeAfterAttempt(sr, e) ==
    IF ~sr THEN "post"
    ELSE IF e # NilErr THEN "inner"
    ELSE "post"

\* Whether the code after the inner loop sleeps and goes on to the next round.
StreamSleepsWhenRetryable(sr, e) == sr
StreamSleeps(sr, e) == e # NilErr /\ sr
RangeSleepsOnAnyError(sr, e) == e # NilErr
RangeSleeps(sr, e) == e # NilErr /\ sr

\* Where fetchWholeChunk and fetchChunkRange go after the lookup returned the
\* error e: "done" is the return of the error, "outer" the call of the retry
\* loop.
WholeChunkAfterLookupGoesOn(e) == "outer"
WholeChunkAfterLookup(e) == IF e # NilErr THEN "done" ELSE "outer"
ChunkRangeAfterLookup(e) == IF e # NilErr THEN "done" ELSE "outer"

\* The request an attempt sends.
StreamRequest(u) == [host |-> u.host, percent |-> u.percent, escaped |-> FALSE]
RangeRequest(u) == [host |-> u.host, percent |-> u.percent, escaped |-> u.percent]

\* fetchWholeChunk: the lookup, then the call of retriedStreamFetchChunkData.
fetchWholeChunk ==
    /\ mode = "stream" /\ pc = "lookup"
    /\ \E res \in LookupResults :
         /\ err' = res.err
         /\ pc' = WholeChunkAfterLookup(res.err)
         /\ IF pc' = "done"
            THEN UNCHANGED <<urlStrings, waitTime>>
            ELSE urlStrings' = res.urls /\ waitTime' = Second
    /\ UNCHANGED <<mode, RetryWaitTime, urlIdx, shouldRetry, totalWritten,
                   localProcesed, writer, n, buffer, offset, streamPos,
                   attemptLog, retLog, sleepLog>>
    /\ UNCHANGED <<resolveVars, compactVars>>

\* fetchChunkRange: the lookup, then the call of retriedFetchChunkData.
fetchChunkRange ==
    /\ mode = "range" /\ pc = "lookup"
    /\ \E res \in LookupResults :
         /\ err' = res.err
         /\ pc' = ChunkRangeAfterLookup(res.err)
         /\ IF pc' = "done"
            THEN UNCHANGED <<urlStrings, waitTime>>
            ELSE urlStrings' = res.urls /\ waitTime' = Second
    /\ n' = 0
    /\ UNCHANGED <<mode, RetryWaitTime, urlIdx, shouldRetry, totalWritten,
                   localProcesed, writer, buffer, offset, streamPos,
                   attemptLog, retLog, sleepLog>>
    /\ UNCHANGED <<resolveVars, compactVars>>

\* retriedStreamFetchChunkData, the outer for's condition.
StreamOuter ==
    /\ mode = "stream" /\ pc = "outer"
    /\ IF waitTime < RetryWaitTime
       THEN pc' = "inner" /\ urlIdx' = 0
       ELSE pc' = "done" /\ UNCHANGED urlIdx
    /\ UNCHANGED <<mode, RetryWaitTime, urlStrings, waitTime, shouldRetry, err,
                   totalWritten, localProcesed, writer, n, buffer, offset,
                   streamPos, attemptLog, retLog, sleepLog>>
    /\ UNCHANGED <<resolveVars, compactVars>>

\* retriedStreamFetchChunkData, the inner range loop taking its next location
\* and starting the transport's attempt on it.
StreamInner ==
    /\ mode = "stream" /\ pc = "inner"
    /\ IF urlIdx < Len(urlStrings)
       THEN /\ urlIdx' = urlIdx + 1
            /\ localProcesed' = 0
            /\ streamPos' = 0
            /\ attemptLog' = Append(attemptLog, StreamRequest(urlStrings[urlIdx + 1]))
            /\ pc' = "read"
       ELSE /\ pc' = "post"
            /\ UNCHANGED <<urlIdx, localProcesed, streamPos, attemptLog>>
    /\ UNCHANGED <<mode, RetryWaitTime, urlStrings, waitTime, shouldRetry, err,
                   totalWritten, writer, n, buffer, offset, retLog, sleepLog>>
    /\ UNCHANGED <<resolveVars, compactVars>>

\* The transport delivers the next k bytes of the content to the callback.
StreamOnData ==
    /\ mode = "stream" /\ pc = "read"
    /\ \E k \in 1 .. (Len(Content) - streamPos) :
         LET data == SubSeq(Content, streamPos + 1, streamPos + k)
             r    == StreamCallback(totalWritten, localProcesed, writer, data)
         IN /\ totalWritten' = r.totalWritten
            /\ localProcesed' = r.localProcesed
            /\ writer' = r.writer
            /\ streamPos' = streamPos + k
    /\ UNCHANGED <<mode, RetryWaitTime, pc, urlStrings, waitTime, urlIdx,
                   shouldRetry, err, n, buffer, offset, attemptLog, retLog,
                   sleepLog>>
    /\ UNCHANGED <<resolveVars, compactVars>>

\* The transport returns (shouldRetry, err); an attempt that returns no error
\* has delivered the whole content. Then the inner loop's breaks.
StreamAttemptEnd ==
    /\ mode = "stream" /\ pc = "read"
    /\ \E ret \in TransportReturns(Len(attemptLog)) :
         /\ ret.err = NilErr => streamPos = Len(Content)
         /\ shouldRetry' = ret.shouldRetry
         /\ err' = ret.err
         /\ retLog' = Append(retLog, ret)
         /\ pc' = StreamAfterAttempt(ret.shouldRetry, ret.err)
    /\ UNCHANGED <<mode, RetryWaitTime, urlStrings, waitTime, urlIdx,
                   totalWritten, localProcesed, writer, n, buffer, offset,
                   streamPos, attemptLog, sleepLog>>
    /\ UNCHANGED <<resolveVars, compactVars>>

\* retriedStreamFetchChunkData after the inner loop: sleep and start the next
\* round, or break out of the outer loop and return err.
StreamRoundEnd ==
    /\ mode = "stream" /\ pc = "post"
    /\ IF StreamSleeps(shouldRetry, err)
       THEN /\ Len(sleepLog) < MaxSleeps
            /\ sleepLog' = Append(sleepLog, waitTime)
            /\ waitTime' = NextWait(waitTime)
            /\ pc' = "outer"
       ELSE /\ pc' = "done"
            /\ UNCHANGED <<sleepLog, waitTime>>
    /\ UNCHANGED <<mode, RetryWaitTime, urlStrings, urlIdx, shouldRetry, err,
                   totalWritten, localProcesed, writer, n, buffer, offset,
                   streamPos, attemptLog, retLog>>
    /\ UNCHANGED <<resolveVars, compactVars>>

\* retriedFetchChunkData, the outer for's condition.
RangeOuter ==
    /\ mode = "range" /\ pc = "outer"
    /\ IF waitTime < RetryWaitTime
       THEN pc' = "inner" /\ urlIdx' = 0
       ELSE pc' = "done" /\ UNCHANGED urlIdx
    /\ UNCHANGED <<mode, RetryWaitTime, urlStrings, waitTime, shouldRetry, err,
                   totalWritten, localProcesed, writer, n, buffer, offset,
                   streamPos, attemptLog, retLog, sleepLog>>
    /\ UNCHANGED <<resolveVars, compactVars>>

\* retriedFetchChunkData, the inner range loop: n = 0, the "%" escape, and the
\* start of the transport's attempt.
RangeInner ==
    /\ mode = "range" /\ pc = "inner"
    /\ IF urlIdx < Len(urlStrings)
       THEN /\ urlIdx' = urlIdx + 1
            /\ n' = 0
            /\ streamPos' = 0
            /\ attemptLog' = Append(attemptLog, RangeRequest(urlStrings[urlIdx + 1]))
            /\ pc' = "read"
       ELSE /\ pc' = "post"
            /\ UNCHANGED <<urlIdx, n, streamPos, attemptLog>>
    /\ UNCHANGED <<mode, RetryWaitTime, urlStrings, waitTime, shouldRetry, err,
                   totalWritten, localProcesed, writer, buffer, offset, retLog,
                   sleepLog>>
    /\ UNCHANGED <<resolveVars, compactVars>>

\* The transport delivers the next k bytes the attempt's replica holds from
\* `offset` on, however long the buffer is.
RangeOnData ==
    /\ mode = "range" /\ pc = "read"
    /\ \E k \in 1 .. (Len(Content) - offset - streamPos) :
         LET data == SubSeq(ReplicaContent(attemptLog[Len(attemptLog)].host),
                            offset + streamPos + 1, offset + streamPos + k)
             r    == RangeCallback(n, buffer, data)
         IN /\ n' = r.n
            /\ buffer' = r.buffer
            /\ streamPos' = streamPos + k
    /\ UNCHANGED <<mode, RetryWaitTime, pc, urlStrings, waitTime, urlIdx,
                   shouldRetry, err, totalWritten, localProcesed, writer, offset,
                   attemptLog, retLog, sleepLog>>
    /\ UNCHANGED <<resolveVars, compactVars>>

\* The transport returns (shouldRetry, err). Then the inner loop's breaks.
RangeAttemptEnd ==
    /\ mode = "range" /\ pc = "read"
    /\ \E ret \in TransportReturns(Len(attemptLog)) :
         /\ shouldRetry' = ret.shouldRetry
         /\ err' = ret.err
         /\ retLog' = Append(retLog, ret)
         /\ pc' = RangeAfterAttempt(ret.shouldRetry, ret.err)
    /\ UNCHANGED <<mode, RetryWaitTime, urlStrings, waitTime, urlIdx,
                   totalWritten, localProcesed, writer, n, buffer, offset,
                   streamPos, attemptLog, sleepLog>>
    /\ UNCHANGED <<resolveVars, compactVars>>

\* retriedFetchChunkData after the inner loop: sleep and start the next round,
\* or break out of the outer loop and return n, err.
RangeRoundEnd ==
    /\ mode = "range" /\ pc = "post"
    /\ IF RangeSleeps(shouldRetry, err)
       THEN /\ Len(sleepLog) < MaxSleeps
            /\ sleepLog' = Append(sleepLog, waitTime)
            /\ waitTime' = NextWait(waitTime)
            /\ pc' = "outer"
       ELSE /\ pc' = "done"
            /\ UNCHANGED <<sleepLog, waitTime>>
    /\ UNCHANGED <<mode, RetryWaitTime, urlStrings, urlIdx, shouldRetry, err,
                   totalWritten, localProcesed, writer, n, buffer, offset,
                   streamPos, attemptLog, retLog>>
    /\ UNCHANGED <<resolveVars, compactVars>>

NextFetch ==
    \/ fetchWholeChunk
    \/ StreamOuter
    \/ StreamInner
    \/ StreamOnData
    \/ StreamAttemptEnd
    \/ StreamRoundEnd
    \/ fetchChunkRange
    \/ RangeOuter
    \/ RangeInner
    \/ RangeOnData
    \/ RangeAttemptEnd
    \/ RangeRoundEnd


\* ----------------------------------------------------------- the resolver

SeqsUpTo(S, k) == UNION {[1 .. m -> S] : m \in 0 .. k}

\* A filer_pb.FileChunk: its file id (GetFileIdString), Offset, Size and
\* IsChunkManifest.
FileChunk(fileId, off, size, isManifest) ==
    [fileId |-> fileId, offset |-> off, size |-> size, isChunkManifest |-> isManifest]

\* proto.Marshal of a FileChunkManifest and proto.Unmarshal into one: the
\* payload carries the chunk list; bytes that are no manifest do not decode.
Marshal(chunkList) == [format |-> "FileChunkManifest", chunks |-> chunkList]
Garbage == [format |-> "garbage", chunks |-> <<>>]
Unmarshal(payload) ==
    IF payload.format = "FileChunkManifest"
    THEN [chunks |-> payload.chunks, failed |-> FALSE]
    ELSE [chunks |-> <<>>, failed |-> TRUE]

\* The result of a resolve call: dataChunks, manifestChunks, manifestResolveErr,
\* and the file ids fetchWholeChunk was called with, in order.
ResolveResult(data, manifests, e, fetched) ==
    [dataChunks |-> data, manifestChunks |-> manifests, err |-> e, fetched |-> fetched]

NoResult == ResolveResult(<<>>, <<>>, NilErr, <<>>)

\* The range test of ResolveChunkManifest: the chunk is skipped.
OutOfRangeTouching(chunk, startOffset, stopOffset) ==
    Max(chunk.offset, startOffset) > Min(chunk.offset + chunk.size, stopOffset)
OutOfRangeDataChunksOnly(chunk, startOffset, stopOffset) ==
    /\ ~chunk.isChunkManifest
    /\ Max(chunk.offset, startOffset) >= Min(chunk.offset + chunk.size, stopOffset)
OutOfRange(chunk, startOffset, stopOffset) ==
    Max(chunk.offset, startOffset) >= Min(chunk.offset + chunk.size, stopOffset)

\* ResolveOneChunkManifest: fetch the manifest's whole payload, decode it.
ResolveOneChunkManifest(store, chunk) ==
    IF ~chunk.isChunkManifest
    THEN ResolveResult(<<>>, <<>>, NilErr, <<>>)
    ELSE LET stored == store[chunk.fileId] IN
         IF stored.fetchFails
         THEN ResolveResult(<<>>, <<>>, ReadManifestErr(chunk.fileId), <<chunk.fileId>>)
         ELSE LET m == Unmarshal(stored.payload) IN
              IF m.failed
              THEN ResolveResult(<<>>, <<>>, UnmarshalManifestErr(chunk.fileId),
                                 <<chunk.fileId>>)
              ELSE ResolveResult(m.chunks, <<>>, NilErr, <<chunk.fileId>>)

\* What ResolveChunkManifest returns from the error branches: the chunks it
\* was called with, a nil manifest list and the error.
ErrorReturnPartial(chunks, data, e, fetched) == ResolveResult(data, <<>>, e, fetched)
ErrorReturn(chunks, data, e, fetched) == ResolveResult(chunks, <<>>, e, fetched)

\* ResolveChunkManifest. ResolveFrom is its loop from the i-th chunk on, with
\* the named results dataChunks and manifestChunks as accumulated so far.
\* Line 71 declares dataChunks, manifestChunks and subErr with := inside the
\* loop body, so from there to the end of the iteration those two names are
\* new variables of the body: lines 75-76 append to them, and the function's
\* results keep what they held at line 69. (subDataChunks and
\* subManifestChunks, which lines 75-76 read, are declared nowhere; whatever
\* they hold is appended to the body's variables only.)
RECURSIVE ResolveFrom(_, _, _, _, _, _, _, _)
ResolveChunkManifest(store, chunks, startOffset, stopOffset) ==
    ResolveFrom(store, chunks, startOffset, stopOffset, 1, <<>>, <<>>, <<>>)
ResolveFrom(store, chunks, startOffset, stopOffset, i, dataChunks, manifestChunks, fetched) ==
    IF i > Len(chunks)
    THEN ResolveResult(dataChunks, manifestChunks, NilErr, fetched)
    ELSE
    LET chunk == chunks[i] IN
    IF OutOfRange(chunk, startOffset, stopOffset)
    THEN ResolveFrom(store, chunks, startOffset, stopOffset, i + 1,
                     dataChunks, manifestChunks, fetched)
    ELSE IF ~chunk.isChunkManifest
    THEN ResolveFrom(store, chunks, startOffset, stopOffset, i + 1,
                     Append(dataChunks, chunk), manifestChunks, fetched)
    ELSE
    LET one == ResolveOneChunkManifest(store, chunk) IN
    IF one.err # NilErr
    THEN ErrorReturn(chunks, dataChunks, one.err, fetched \o one.fetched)
    ELSE
    LET sub == ResolveChunkManifest(store, one.dataChunks, startOffset, stopOffset) IN
    IF sub.err # NilErr
    THEN ErrorReturn(chunks, dataChunks, sub.err, fetched \o one.fetched \o sub.fetched)
    ELSE ResolveFrom(store, chunks, startOffset, stopOffset, i + 1,
                     dataChunks, Append(manifestChunks, chunk),
                     fetched \o one.fetched \o sub.fetched)

\* The chunks of the resolve calls: leaves covering [0,100), [100,150) and
\* [150,200), a leaf of size zero, and two manifest chunks.
LeafA == FileChunk(1, 0, 100, FALSE)
LeafB == FileChunk(2, 100, 50, FALSE)
LeafC == FileChunk(3, 150, 50, FALSE)
LeafZ == FileChunk(4, 100, 0, FALSE)
ManifestM == FileChunk(11, 100, 100, TRUE)
ManifestN == FileChunk(12, 150, 50, TRUE)

\* The ranges [startOffset, stopOffset) of the resolve calls; the last two are
\* empty.
ResolveRanges ==
    {<<0, 100>>, <<99, 101>>, <<150, 200>>, <<0, 200>>, <<100, 100>>, <<150, 100>>}

\* What the store holds under a manifest's file id: an unreachable chunk,
\* bytes that are no manifest, or the marshalled list of its children (the
\* empty list is also what an empty buffer decodes to).
Stored(kids) ==
    {[fetchFails |-> TRUE, payload |-> Garbage],
     [fetchFails |-> FALSE, payload |-> Garbage]}
    \cup {[fetchFails |-> FALSE, payload |-> Marshal(k)] : k \in kids}

\* The stores: M lists leaves and N, N lists leaves (nesting of depth 2).
ManifestStores ==
    {[id \in {ManifestM.fileId, ManifestN.fileId} |->
        IF id = ManifestM.fileId THEN sm ELSE sn] :
        sm \in Stored(SeqsUpTo({LeafB, LeafC, ManifestN}, MaxKids)),
        sn \in Stored(SeqsUpTo({LeafA, LeafC}, 1))}

ResolveIdle ==
    /\ resolvePc = "idle"
    /\ resolveIn = [chunks |-> <<>>, startOffset |-> 0, stopOffset |-> 0]
    /\ manifestStore = <<>>
    /\ resolveOut = NoResult
    /\ callStack = <<>>

ResolveInit ==
    /\ resolvePc = "call"
    /\ \E cs \in SeqsUpTo({LeafA, LeafB, LeafC, LeafZ, ManifestM}, MaxTop),
          r \in ResolveRanges :
         resolveIn = [chunks |-> cs, startOffset |-> r[1], stopOffset |-> r[2]]
    /\ manifestStore \in ManifestStores
    /\ resolveOut = NoResult
    /\ callStack = <<>>

\* One call of ResolveChunkManifest.
ResolveCall ==
    /\ resolvePc = "call"
    /\ resolveOut' = ResolveChunkManifest(manifestStore, resolveIn.chunks,
                                          resolveIn.startOffset, resolveIn.stopOffset)
    /\ resolvePc' = "done"
    /\ UNCHANGED <<resolveIn, manifestStore, callStack>>
    /\ UNCHANGED <<fetchVars, compactVars>>

NextResolve == ResolveCall

\* ------------------------------------------- the resolver, call by call
\* The same function with its recursion made visible: callStack holds one
\* frame per ResolveChunkManifest call in progress, the last one running.

\* A frame: the chunks argument, the index of the next chunk of the range
\* loop, and the named results dataChunks and manifestChunks.
Frame(chunks) == [chunks |-> chunks, i |-> 1, dataChunks |-> <<>>, manifestChunks |-> <<>>]

Top == callStack[Len(callStack)]
TopChunk == Top.chunks[Top.i]
TopHasChunk == callStack # <<>> /\ Top.i <= Len(Top.chunks)
TopOutOfRange == OutOfRange(TopChunk, resolveIn.startOffset, resolveIn.stopOffset)

\* The stores of the stepwise calls: a manifest may list itself, and M and N
\* may list each other.
LoopingStores ==
    {[id \in {ManifestM.fileId, ManifestN.fileId} |->
        IF id = ManifestM.fileId THEN sm ELSE sn] :
        sm \in Stored(SeqsUpTo({LeafB, ManifestN, ManifestM}, MaxKids)),
        sn \in Stored(SeqsUpTo({LeafC, ManifestM}, 1))}

StepRanges == {<<0, 100>>, <<150, 200>>, <<0, 200>>}

ResolveStepsInit ==
    /\ resolvePc = "enter"
    /\ \E cs \in SeqsUpTo({LeafA, ManifestM}, MaxTop), r \in StepRanges :
         resolveIn = [chunks |-> cs, startOffset |-> r[1], stopOffset |-> r[2]]
    /\ manifestStore \in LoopingStores
    /\ resolveOut = NoResult
    /\ callStack = <<>>

\* The top-level call is entered.
ResolveEnter ==
    /\ resolvePc = "enter"
    /\ callStack' = <<Frame(resolveIn.chunks)>>
    /\ resolvePc' = "loop"
    /\ UNCHANGED <<resolveIn, manifestStore, resolveOut>>
    /\ UNCHANGED <<fetchVars, compactVars>>

\* The range test fails: continue.
ResolveSkip ==
    /\ resolvePc = "loop" /\ TopHasChunk /\ TopOutOfRange
    /\ callStack' = [callStack EXCEPT ![Len(callStack)].i = @ + 1]
    /\ UNCHANGED <<resolvePc, resolveIn, manifestStore, resolveOut>>
    /\ UNCHANGED <<fetchVars, compactVars>>

\* A data chunk in range: appended to dataChunks.
ResolveLeaf ==
    /\ resolvePc = "loop" /\ TopHasChunk /\ ~TopOutOfRange
    /\ ~TopChunk.isChunkManifest
    /\ callStack' = [callStack EXCEPT ![Len(callStack)].i = @ + 1,
                                       ![Len(callStack)].dataChunks = Append(@, TopChunk)]
    /\ UNCHANGED <<resolvePc, resolveIn, manifestStore, resolveOut>>
    /\ UNCHANGED <<fetchVars, compactVars>>

\* A manifest chunk in range that ResolveOneChunkManifest cannot read or
\* decode: the running call returns its chunks and the error, and so does
\* every call above it (lines 72-74), the top-level one last.
ResolveManifestFails ==
    /\ resolvePc = "loop" /\ TopHasChunk /\ ~TopOutOfRange
    /\ TopChunk.isChunkManifest
    /\ LET one == ResolveOneChunkManifest(manifestStore, TopChunk) IN
         /\ one.err # NilErr
         /\ resolveOut' = ErrorReturn(callStack[1].chunks, callStack[1].dataChunks,
                                      one.err, resolveOut.fetched \o one.fetched)
    /\ callStack' = <<>>
    /\ resolvePc' = "done"
    /\ UNCHANGED <<resolveIn, manifestStore>>
    /\ UNCHANGED <<fetchVars, compactVars>>

\* A manifest chunk in range that decodes: it is appended to manifestChunks
\* (line 69) and ResolveChunkManifest is called on its children (line 71).
ResolveDescend ==
    /\ resolvePc = "loop" /\ TopHasChunk /\ ~TopOutOfRange
    /\ TopChunk.isChunkManifest
    /\ Len(callStack) < MaxDepth
    /\ LET one == ResolveOneChunkManifest(manifestStore, TopChunk) IN
         /\ one.err = NilErr
         /\ resolveOut' = [resolveOut EXCEPT !.fetched = @ \o one.fetched]
         /\ callStack' =
                Append([callStack EXCEPT ![Len(callStack)].manifestChunks =
                                             Append(@, TopChunk)],
                       Frame(one.dataChunks))
    /\ UNCHANGED <<resolvePc, resolveIn, manifestStore>>
    /\ UNCHANGED <<fetchVars, compactVars>>

\* The range loop of the running call is over: it returns its named results.
\* The caller receives them in the variables line 71 declares inside its loop
\* body, so its own dataChunks and manifestChunks stay as they are, and it
\* goes on with its next chunk; the top-level call returns to the caller of
\* the resolver.
ResolveReturn ==
    /\ resolvePc = "loop" /\ callStack # <<>> /\ ~TopHasChunk
    /\ IF Len(callStack) = 1
       THEN /\ resolveOut' = ResolveResult(Top.dataChunks, Top.manifestChunks,
                                           NilErr, resolveOut.fetched)
            /\ callStack' = <<>>
            /\ resolvePc' = "done"
       ELSE /\ callStack' = [SubSeq(callStack, 1, Len(callStack) - 1)
                                EXCEPT ![Len(callStack) - 1].i = @ + 1]
            /\ UNCHANGED <<resolvePc, resolveOut>>
    /\ UNCHANGED <<resolveIn, manifestStore>>
    /\ UNCHANGED <<fetchVars, compactVars>>

NextResolveSteps ==
    \/ ResolveEnter
    \/ ResolveSkip
    \/ ResolveLeaf
    \/ ResolveManifestFails
    \/ ResolveDescend
    \/ ResolveReturn


\* ------------------------------------------------------------ the builder

\* math.MaxInt64 and math.MinInt64, scaled to 32-bit integers.
MaxInt64 == 2147483647
MinInt64 == -2147483647

\* The errors of mergeIntoManifest on its k-th call.
SerializeErr(k) == [kind |-> "serializing manifest", of |-> k]
SaveErr(k) == [kind |-> "save", of |-> k]

\* The file id saveFunc gives the blob of its k-th call.
NewFileId(k) == 100 + k

\* HasChunkManifest.
HasChunkManifest(chunks) ==
    \E i \in 1 .. Len(chunks) : chunks[i].isChunkManifest

\* SeparateManifestChunks, and the first loop of doMaybeManifestize.
SeparateManifestChunksAllData(chunks) ==
    [manifestChunks |-> <<>>, nonManifestChunks |-> chunks]
SeparateManifestChunks(chunks) ==
    LET IsManifest(c) == c.isChunkManifest
        IsData(c) == ~c.isChunkManifest
    IN [manifestChunks |-> SelectSeq(chunks, IsManifest),
        nonManifestChunks |-> SelectSeq(chunks, IsData)]

\* The loop of mergeIntoManifest over dataChunks from the i-th on: minOffset
\* and maxOffset.
RECURSIVE OffsetRange(_, _, _, _)
OffsetRange(dataChunks, i, minOffset, maxOffset) ==
    IF i > Len(dataChunks)
    THEN [minOffset |-> minOffset, maxOffset |-> maxOffset]
    ELSE LET chunk == dataChunks[i] IN
         OffsetRange(dataChunks, i + 1,
                     IF minOffset > chunk.offset THEN chunk.offset ELSE minOffset,
                     IF maxOffset < chunk.size + chunk.offset
                        THEN chunk.size + chunk.offset ELSE maxOffset)

\* The last three assignments of mergeIntoManifest on saveFunc's descriptor.
StampSizeIsMaxOffset(manifestChunk, minOffset, maxOffset) ==
    [manifestChunk EXCEPT !.isChunkManifest = TRUE, !.offset = minOffset,
                          !.size = maxOffset]
Stamp(manifestChunk, minOffset, maxOffset) ==
    [manifestChunk EXCEPT !.isChunkManifest = TRUE, !.offset = minOffset,
                          !.size = maxOffset - minOffset]

\* mergeIntoManifest, called for the k-th time: the manifest chunk and error it
\* returns, and the blob it had saveFunc store, if any.
mergeIntoManifest(plan, k, dataChunks) ==
    IF plan.failAt = k /\ plan.failKind = "serialize"
    THEN [manifestChunk |-> <<>>, err |-> SerializeErr(k), saved |-> <<>>]
    ELSE LET data == Marshal(dataChunks)
             r == OffsetRange(dataChunks, 1, MaxInt64, MinInt64)
         IN IF plan.failAt = k /\ plan.failKind = "save"
            THEN [manifestChunk |-> <<>>, err |-> SaveErr(k), saved |-> <<>>]
            ELSE [manifestChunk |->
                      Stamp(FileChunk(NewFileId(k), plan.descOffset, plan.descSize, FALSE),
                            r.minOffset, r.maxOffset),
                  err |-> NilErr,
                  saved |-> <<[fileId |-> NewFileId(k), payload |-> data]>>]

\* The result of a doMaybeManifestize call: chunks and err, and the blobs
\* stored and the manifest chunks mergefn returned during the call, in order.
CompactResult(chunks, e, saved, merged, mergeCalls) ==
    [chunks |-> chunks, err |-> e, saved |-> saved, merged |-> merged,
     mergeCalls |-> mergeCalls]

NoCompactResult == CompactResult(<<>>, NilErr, <<>>, <<>>, 0)

\* The condition of the merge loop of doMaybeManifestize.
LoopGoesOnStrict(i, mergeFactor, len) == i + mergeFactor < len
LoopGoesOn(i, mergeFactor, len) == i + mergeFactor <= len

\* What doMaybeManifestize returns when mergefn fails.
ReturnOnMergeErrorPartial(dataChunks, chunks, e, saved, merged, mergeCalls) ==
    CompactResult(chunks \o dataChunks, e, saved, merged, mergeCalls)
ReturnOnMergeError(dataChunks, chunks, e, saved, merged, mergeCalls) ==
    CompactResult(dataChunks, e, saved, merged, mergeCalls)

\* The merge loop of doMaybeManifestize at index i (0-based, as in the code),
\* then its last loop over the remaining chunks.
RECURSIVE MergeLoop(_, _, _, _, _, _, _, _)
MergeLoop(plan, dataChunks, mergeFactor, i, chunks, remaining, saved, merged) ==
    IF LoopGoesOn(i, mergeFactor, Len(dataChunks))
    THEN LET k == Len(merged) + 1
             m == mergeIntoManifest(plan, k, SubSeq(dataChunks, i + 1, i + mergeFactor))
         IN IF m.err # NilErr
            THEN ReturnOnMergeError(dataChunks, chunks, m.err, saved \o m.saved, merged, k)
            ELSE MergeLoop(plan, dataChunks, mergeFactor, i + mergeFactor,
                           Append(chunks, m.manifestChunk), remaining - mergeFactor,
                           saved \o m.saved, Append(merged, m.manifestChunk))
    ELSE CompactResult(
             chunks \o SubSeq(dataChunks, Len(dataChunks) - remaining + 1, Len(dataChunks)),
             NilErr, saved, merged, Len(merged))

doMaybeManifestize(plan, inputChunks, mergeFactor) ==
    LET parts == SeparateManifestChunks(inputChunks) IN
    MergeLoop(plan, parts.nonManifestChunks, mergeFactor, 0, parts.manifestChunks,
              Len(parts.nonManifestChunks), <<>>, <<>>)

\* A leaf that spans the other leaves and beyond.
LeafW == FileChunk(5, 0, 300, FALSE)

\* How the k-th merge fails, if one does (failAt = 0: none), and the offset and
\* size saveFunc puts in the descriptors it returns.
SavePlans ==
    [failAt : {0}, failKind : {"none"}, descOffset : {0, 7}, descSize : {0, 3}]
    \cup [failAt : 1 .. MaxFailAt, failKind : {"serialize", "save"},
          descOffset : {7}, descSize : {3}]

CompactIdle ==
    /\ compactPc = "idle"
    /\ compactIn = [inputChunks |-> <<>>, mergeFactor |-> 0]
    /\ savePlan = [failAt |-> 0, failKind |-> "none", descOffset |-> 0, descSize |-> 0]
    /\ compactOut = NoCompactResult
    /\ compactAgain = NoCompactResult

CompactInit ==
    /\ compactPc = "call"
    /\ \E cs \in SeqsUpTo({LeafA, LeafB, LeafW, ManifestM}, MaxInput),
          b \in 1 .. MaxMergeFactor :
         compactIn = [inputChunks |-> cs, mergeFactor |-> b]
    /\ savePlan \in SavePlans
    /\ compactOut = NoCompactResult
    /\ compactAgain = NoCompactResult

\* One call of doMaybeManifestize with mergeIntoManifest as mergefn.
CompactCall ==
    /\ compactPc = "call"
    /\ compactOut' = doMaybeManifestize(savePlan, compactIn.inputChunks,
                                        compactIn.mergeFactor)
    /\ compactPc' = "done"
    /\ UNCHANGED <<compactIn, savePlan, compactAgain>>
    /\ UNCHANGED <<fetchVars, resolveVars>>

NextCompact == CompactCall

\* A second call of doMaybeManifestize, on the list a successful first call
\* returned, with the same mergeFactor.
CompactAgain ==
    /\ compactPc = "done" /\ compactOut.err = NilErr
    /\ compactAgain' = doMaybeManifestize(savePlan, compactOut.chunks,
                                          compactIn.mergeFactor)
    /\ compactPc' = "again"
    /\ UNCHANGED <<compactIn, savePlan, compactOut>>
    /\ UNCHANGED <<fetchVars, resolveVars>>

NextCompactTwice ==
    \/ CompactCall
    \/ CompactAgain

\* ------------------------------------------- the builder, then the resolver

\* The store after a doMaybeManifestize call, as ResolveOneChunkManifest meets
\* it: under the file id saveFunc gave a blob, the bytes it was given; under
\* the file id of a manifest chunk of the input, its children.
StoreAfter(saved) ==
    [id \in {saved[k].fileId : k \in 1 .. Len(saved)} \cup {ManifestM.fileId} |->
        IF id = ManifestM.fileId
        THEN [fetchFails |-> FALSE, payload |-> Marshal(<<LeafB, LeafC>>)]
        ELSE LET k == CHOOSE j \in 1 .. Len(saved) : saved[j].fileId = id
             IN [fetchFails |-> FALSE, payload |-> saved[k].payload]]

\* ResolveChunkManifest called on what a successful doMaybeManifestize
\* returned, over the whole file: [0, math.MaxInt64).
ResolveCompacted ==
    /\ compactPc = "done" /\ compactOut.err = NilErr
    /\ resolvePc = "idle"
    /\ manifestStore' = StoreAfter(compactOut.saved)
    /\ resolveIn' = [chunks |-> compactOut.chunks, startOffset |-> 0,
                     stopOffset |-> MaxInt64]
    /\ resolveOut' = ResolveChunkManifest(manifestStore', compactOut.chunks, 0, MaxInt64)
    /\ resolvePc' = "done"
    /\ UNCHANGED callStack
    /\ UNCHANGED <<fetchVars, compactVars>>

NextCompactResolve ==
    \/ CompactCall
    \/ ResolveCompacted

\* ---------------------------------------------------------- specifications

\* One fetch call, whole-chunk or ranged.
InitFetch == FetchInit /\ ResolveIdle /\ CompactIdle
SpecFetch == InitFetch /\ [][NextFetch]_vars

\* The calling goroutine keeps running until the call returns.
SpecFetchFair == InitFetch /\ [][NextFetch]_vars /\ WF_vars(NextFetch)

\* One call of ResolveChunkManifest.
InitResolve == FetchIdle /\ ResolveInit /\ CompactIdle
SpecResolve == InitResolve /\ [][NextResolve]_vars

\* One call of ResolveChunkManifest, call by call; the goroutine keeps running.
InitResolveSteps == FetchIdle /\ ResolveStepsInit /\ CompactIdle
SpecResolveSteps == InitResolveSteps /\ [][NextResolveSteps]_vars
SpecResolveStepsFair ==
    InitResolveSteps /\ [][NextResolveSteps]_vars /\ WF_vars(NextResolveSteps)

\* One call of doMaybeManifestize.
InitCompact == FetchIdle /\ ResolveIdle /\ CompactInit
SpecCompact == InitCompact /\ [][NextCompact]_vars

\* One call of doMaybeManifestize, then one of ResolveChunkManifest on its
\* result.
SpecCompactResolve == InitCompact /\ [][NextCompactResolve]_vars

\* Two calls of doMaybeManifestize, the second on the result of the first.
SpecCompactTwice == InitCompact /\ [][NextCompactTwice]_vars

\* ------------------------------------------------------------------ claims

\* Every finished attempt so far reported a retryable failure.
AllRetryableFailures ==
    \A i \in 1 .. Len(retLog) : retLog[i].shouldRetry /\ retLog[i].err # NilErr

\* Some finished attempt reported shouldRetry = false.
TerminalSeen == \E i \in 1 .. Len(retLog) : ~retLog[i].shouldRetry

\* C1: in a whole-chunk fetch whose attempts each re-deliver the content from
\* byte zero in deliveries of any sizes, and may fail after any prefix, the sink
\* holds at every point exactly the first totalWritten bytes of the content,
\* and when the fetch returns nil after an attempt the sink is the content,
\* once.
C1_SinkIsExactPrefix ==
    mode = "stream" =>
        /\ totalWritten <= Len(Content)
        /\ writer = SubSeq(Content, 1, totalWritten)
        /\ (pc = "done" /\ err = NilErr /\ retLog # <<>>) => writer = Content

\* A retried attempt is in the middle of re-delivering bytes an earlier attempt
\* committed: part of them skipped, part still to skip, more content to come.
C1_Witness ==
    /\ mode = "stream" /\ pc = "read" /\ retLog # <<>>
    /\ 0 < localProcesed /\ localProcesed < totalWritten
    /\ totalWritten < Len(Content)
    /\ writer = SubSeq(Content, 1, totalWritten)

\* C2: with a non-empty location list and every attempt failing retryably,
\* both fetch modes make finitely many rounds and return, and what they return
\* is the error of the last attempt made, never nil.
C2_BackoffTerminates ==
    /\ <>(pc = "done")
    /\ []((pc = "done" /\ urlStrings # <<>> /\ retLog # <<>> /\ AllRetryableFailures)
            => /\ err = retLog[Len(retLog)].err
               /\ err = TransportErr(Len(attemptLog))
               /\ err # NilErr)

\* A range fetch gave up after two or more full rounds of failures over two or
\* more locations and returned the last attempt's error.
C2_Witness ==
    /\ mode = "range" /\ pc = "done"
    /\ Len(urlStrings) >= 2 /\ Len(sleepLog) >= 2
    /\ AllRetryableFailures
    /\ Len(retLog) = Len(urlStrings) * Len(sleepLog)
    /\ err = TransportErr(Len(retLog))

\* C3: in either mode, once an attempt has reported shouldRetry = false there
\* is no further attempt, no sleep and no further round, and the fetch returns
\* that attempt's error.
C3_TerminalShortCircuit ==
    /\ [][TerminalSeen => /\ attemptLog' = attemptLog
                          /\ retLog' = retLog
                          /\ sleepLog' = sleepLog
                          /\ waitTime' = waitTime
                          /\ err' = err]_vars
    /\ [](TerminalSeen => /\ pc \in {"post", "done"}
                          /\ ~retLog[Len(retLog)].shouldRetry
                          /\ err = retLog[Len(retLog)].err)

\* A whole-chunk fetch over two or more locations returned the error of its
\* first attempt, which was terminal, with the other locations untried.
C3_Witness ==
    /\ mode = "stream" /\ pc = "done"
    /\ Len(urlStrings) >= 2 /\ Len(attemptLog) = 1 /\ sleepLog = <<>>
    /\ ~retLog[1].shouldRetry
    /\ err = TransportErr(1)

\* The overlap test as the claims state it.
Covers(chunk, startOffset, stopOffset) ==
    Max(chunk.offset, startOffset) < Min(chunk.offset + chunk.size, stopOffset)

\* Whether a stored manifest can be fetched and decoded, and its children.
Decodes(store, chunk) ==
    ~store[chunk.fileId].fetchFails /\ ~Unmarshal(store[chunk.fileId].payload).failed
Children(store, chunk) == Unmarshal(store[chunk.fileId].payload).chunks

\* The depth-first traversal of a chunk tree restricted to a range: its leaves,
\* its manifests (a manifest before its children), and whether it meets a
\* manifest that cannot be fetched or decoded.
RECURSIVE TreeLeaves(_, _, _, _)
TreeLeaves(store, chunks, startOffset, stopOffset) ==
    IF chunks = <<>> THEN <<>>
    ELSE LET c == Head(chunks)
             rest == TreeLeaves(store, Tail(chunks), startOffset, stopOffset)
         IN IF ~Covers(c, startOffset, stopOffset) THEN rest
            ELSE IF ~c.isChunkManifest THEN <<c>> \o rest
            ELSE TreeLeaves(store, Children(store, c), startOffset, stopOffset) \o rest

RECURSIVE TreeManifests(_, _, _, _)
TreeManifests(store, chunks, startOffset, stopOffset) ==
    IF chunks = <<>> THEN <<>>
    ELSE LET c == Head(chunks)
             rest == TreeManifests(store, Tail(chunks), startOffset, stopOffset)
         IN IF ~Covers(c, startOffset, stopOffset) \/ ~c.isChunkManifest THEN rest
            ELSE IF ~Decodes(store, c) THEN <<c>> \o rest
            ELSE <<c>> \o TreeManifests(store, Children(store, c), startOffset, stopOffset)
                      \o rest

TraversalFails(store, chunks, startOffset, stopOffset) ==
    \E i \in 1 .. Len(TreeManifests(store, chunks, startOffset, stopOffset)) :
        ~Decodes(store, TreeManifests(store, chunks, startOffset, stopOffset)[i])

ResolveDone == resolvePc = "done"
InChunks == resolveIn.chunks
InStart == resolveIn.startOffset
InStop == resolveIn.stopOffset

\* C4: when every in-range manifest decodes, at any nesting depth, Resolve
\* returns no error, as leaf list the in-range leaves of the whole tree in
\* depth-first first-seen order (a manifest's children where the manifest
\* stood), and as manifest list the decoded manifests in traversal order.
C4_NestedMergeInPlace ==
    (ResolveDone /\ ~TraversalFails(manifestStore, InChunks, InStart, InStop))
        => /\ resolveOut.err = NilErr
           /\ resolveOut.dataChunks = TreeLeaves(manifestStore, InChunks, InStart, InStop)
           /\ resolveOut.manifestChunks
                = TreeManifests(manifestStore, InChunks, InStart, InStop)

\* C5: when the traversal meets a manifest that cannot be fetched or decoded,
\* at any depth, the top-level call stops there (the failing manifest is the
\* last one fetched, and the ones fetched are the traversal up to it), returns
\* a non-nil error, a nil manifest list, and its own input list as chunk list.
C5_ErrorReturnsOriginalInput ==
    (ResolveDone /\ TraversalFails(manifestStore, InChunks, InStart, InStop))
        => LET order == TreeManifests(manifestStore, InChunks, InStart, InStop)
               k == Len(resolveOut.fetched)
           IN /\ resolveOut.err # NilErr
              /\ resolveOut.manifestChunks = <<>>
              /\ resolveOut.dataChunks = InChunks
              /\ k >= 1 /\ k <= Len(order)
              /\ \A i \in 1 .. k : resolveOut.fetched[i] = order[i].fileId
              /\ \A i \in 1 .. (k - 1) : Decodes(manifestStore, order[i])
              /\ ~Decodes(manifestStore, order[k])
              /\ resolveOut.err.of = order[k].fileId

\* The call took a leaf, then descended through manifest M into manifest N
\* (depth 2), which failed: it returned its own input and N's error.
C5_Witness ==
    /\ ResolveDone
    /\ InChunks = <<LeafC, ManifestM>>
    /\ InStart = 150 /\ InStop = 200
    /\ Decodes(manifestStore, ManifestM)
    /\ Children(manifestStore, ManifestM) = <<LeafC, ManifestN>>
    /\ resolveOut.fetched = <<ManifestM.fileId, ManifestN.fileId>>
    /\ resolveOut.err \in {ReadManifestErr(ManifestN.fileId),
                           UnmarshalManifestErr(ManifestN.fileId)}
    /\ resolveOut.dataChunks = InChunks
    /\ resolveOut.manifestChunks = <<>>

\* C6: for a list without manifest chunks and any range, Resolve returns no
\* error, no manifest, and exactly the input chunks with
\* max(offset, startOffset) < min(offset+size, stopOffset), in input order; the
\* chunk [100,150) is out for [0,100) and [150,200) and in for [99,101);
\* chunks of size zero and empty ranges contribute nothing.
C6_LeafOnlyIsRangeFilter ==
    LET Kept(c) == Covers(c, InStart, InStop)
        Only(s, e) == ResolveChunkManifest(manifestStore, <<LeafB>>, s, e).dataChunks
    IN
    (ResolveDone /\ \A i \in 1 .. Len(InChunks) : ~InChunks[i].isChunkManifest)
        => /\ resolveOut.err = NilErr
           /\ resolveOut.manifestChunks = <<>>
           /\ resolveOut.fetched = <<>>
           /\ resolveOut.dataChunks = SelectSeq(InChunks, Kept)
           /\ \A i \in 1 .. Len(resolveOut.dataChunks) :
                  resolveOut.dataChunks[i].size > 0 /\ InStart < InStop
           /\ Only(0, 100) = <<>> /\ Only(150, 200) = <<>> /\ Only(99, 101) = <<LeafB>>

\* A leaf-only call over [99,101) kept the chunk [100,150) and dropped the
\* chunk [150,200) listed before it.
C6_Witness ==
    /\ ResolveDone
    /\ InChunks = <<LeafC, LeafB>>
    /\ InStart = 99 /\ InStop = 101
    /\ resolveOut.dataChunks = <<LeafB>>
    /\ resolveOut.err = NilErr

CompactDone == compactPc = "done"
\* The input of the compact call: its batch size, its manifest chunks and its
\* leaf chunks, and the k-th batch of the leaves.
BatchSize == compactIn.mergeFactor
InputManifests ==
    LET IsManifest(c) == c.isChunkManifest IN SelectSeq(compactIn.inputChunks, IsManifest)
InputLeaves ==
    LET IsLeaf(c) == ~c.isChunkManifest IN SelectSeq(compactIn.inputChunks, IsLeaf)
Batch(k) == SubSeq(InputLeaves, (k - 1) * BatchSize + 1, k * BatchSize)
FullBatches == Len(InputLeaves) \div BatchSize
Leftover == Len(InputLeaves) % BatchSize

\* C7: a Compact whose merges all succeed returns, in this order, the input's
\* manifest chunks, one new manifest chunk per full batch of B leaves (the k-th
\* stored with leaves (k-1)*B+1 .. k*B as payload), and the last n mod B leaves;
\* 2B + B/2 leaves give 2 manifests and B/2 leaves, fewer than B give none.
C7_CompactOutputLayout ==
    (CompactDone /\ compactOut.err = NilErr)
        => LET out == compactOut.chunks
               m == Len(InputManifests)
           IN /\ Len(out) = m + FullBatches + Leftover
              /\ SubSeq(out, 1, m) = InputManifests
              /\ Len(compactOut.saved) = FullBatches
              /\ \A k \in 1 .. FullBatches :
                    /\ out[m + k].isChunkManifest
                    /\ out[m + k].fileId = compactOut.saved[k].fileId
                    /\ \A j \in 1 .. Len(compactIn.inputChunks) :
                           compactIn.inputChunks[j].fileId # out[m + k].fileId
                    /\ Unmarshal(compactOut.saved[k].payload)
                           = [chunks |-> Batch(k), failed |-> FALSE]
              /\ SubSeq(out, m + FullBatches + 1, Len(out))
                    = SubSeq(InputLeaves, Len(InputLeaves) - Leftover + 1, Len(InputLeaves))
              /\ (Len(InputLeaves) < BatchSize) => compactOut.saved = <<>>

\* Five leaves with a batch size of two: two new manifest chunks, then one
\* leftover leaf.
C7_Witness ==
    /\ CompactDone /\ compactOut.err = NilErr
    /\ BatchSize = 2 /\ Len(InputLeaves) = 5 /\ InputManifests = <<>>
    /\ Len(compactOut.chunks) = 3
    /\ HasChunkManifest(compactOut.chunks)
    /\ SeparateManifestChunks(compactOut.chunks).manifestChunks
           = SubSeq(compactOut.chunks, 1, 2)
    /\ compactOut.chunks[3] = compactIn.inputChunks[5]

SetMin(S) == CHOOSE x \in S : \A y \in S : x <= y
SetMax(S) == CHOOSE x \in S : \A y \in S : x >= y

\* C8: every manifest chunk mergeIntoManifest made has isManifest = true, the
\* least child offset as offset and the greatest child end minus that as size,
\* whatever offset and size saveFunc gave the descriptor.
C8_ManifestRangeIsChildrenFootprint ==
    CompactDone =>
        \A k \in 1 .. Len(compactOut.merged) :
            LET made == compactOut.merged[k]
                lo == SetMin({Batch(k)[j].offset : j \in 1 .. BatchSize})
                hi == SetMax({Batch(k)[j].offset + Batch(k)[j].size : j \in 1 .. BatchSize})
            IN /\ made.isChunkManifest
               /\ made.offset = lo
               /\ made.size = hi - lo
               /\ made.fileId = NewFileId(k)

\* saveFunc returned a descriptor with offset 7 and size 3 for the batch of the
\* leaves [100,150) and [0,300): the manifest chunk covers [0,300).
C8_Witness ==
    /\ CompactDone
    /\ savePlan.descOffset = 7 /\ savePlan.descSize = 3
    /\ compactIn.inputChunks = <<LeafB, LeafW>> /\ BatchSize = 2
    /\ compactOut.merged = <<FileChunk(NewFileId(1), 0, 300, TRUE)>>

\* C9: when the merge of a batch fails, Compact makes no later merge, returns
\* that batch's error, and returns all the input's leaf chunks in input order,
\* with none of the manifest chunks made from the batches before.
C9_FailureReturnsLeaves ==
    (CompactDone /\ savePlan.failAt \in 1 .. FullBatches)
        => /\ compactOut.err \in {SerializeErr(savePlan.failAt), SaveErr(savePlan.failAt)}
           /\ compactOut.mergeCalls = savePlan.failAt
           /\ Len(compactOut.merged) = savePlan.failAt - 1
           /\ Len(compactOut.saved) = savePlan.failAt - 1
           /\ compactOut.chunks = InputLeaves
           /\ \A j \in 1 .. Len(compactOut.chunks) :
                  /\ ~compactOut.chunks[j].isChunkManifest
                  /\ \A k \in 1 .. Len(compactOut.merged) :
                         compactOut.chunks[j] # compactOut.merged[k]

\* The second batch failed after the first was merged and stored: the call
\* returned the leaves alone.
C9_Witness ==
    /\ CompactDone
    /\ savePlan.failAt = 2 /\ FullBatches >= 3
    /\ compactOut.err = SaveErr(2)
    /\ Len(compactOut.merged) = 1 /\ Len(compactOut.saved) = 1
    /\ compactOut.chunks = InputLeaves

\* C10: when Compact fails, the list it returns holds every chunk of the
\* input, the input's manifest chunks included.
C10_FailureReturnsWholeInput ==
    (CompactDone /\ compactOut.err # NilErr)
        => \A i \in 1 .. Len(compactIn.inputChunks) :
               \E j \in 1 .. Len(compactOut.chunks) :
                   compactOut.chunks[j] = compactIn.inputChunks[i]

\* C11: when the lookup returns an error, fetchWholeChunk and fetchChunkRange
\* return that error at once: the step that receives it is the call's last,
\* and the call has made no transport attempt, slept never, written nothing to
\* the sink or the buffer, and (range) returns n = 0.
C11_LookupFailureNotRetried ==
    /\ [][(pc = "lookup" /\ err' = LookupErr) => pc' = "done"]_vars
    /\ [](err = LookupErr =>
            /\ pc = "done"
            /\ attemptLog = <<>> /\ retLog = <<>> /\ sleepLog = <<>>
            /\ writer = <<>> /\ totalWritten = 0
            /\ n = 0
            /\ \A i \in 1 .. Len(buffer) : buffer[i] = 0)

\* A range fetch into a buffer of two bytes returned the lookup's error.
C11_Witness ==
    /\ mode = "range" /\ pc = "done" /\ err = LookupErr
    /\ Len(buffer) = 2 /\ n = 0 /\ attemptLog = <<>>

\* A chunk tree without a cycle: no manifest reaches itself through the stored
\* children lists.
RECURSIVE Reaches(_, _, _, _)
Reaches(store, from, to, fuel) ==
    /\ fuel > 0
    /\ Decodes(store, [fileId |-> from])
    /\ \E j \in 1 .. Len(Children(store, [fileId |-> from])) :
          LET c == Children(store, [fileId |-> from])[j] IN
          /\ c.isChunkManifest
          /\ (c.fileId = to \/ Reaches(store, c.fileId, to, fuel - 1))
Acyclic(store) ==
    \A id \in DOMAIN store : ~Reaches(store, id, id, Cardinality(DOMAIN store))

\* No call in progress was made with the chunk list of a call it is nested in.
\* (What a call does is determined by its chunk list, the range and the store,
\* so a call nested in a call on the same chunk list nests another one, and
\* none of them returns.)
NoCallRepeats ==
    \A d, e \in 1 .. Len(callStack) : d < e => callStack[d].chunks # callStack[e].chunks

\* C12: ResolveChunkManifest returns on every input, a manifest whose stored
\* children list holds the manifest itself (or one that lists it back) with an
\* overlapping range included: no call repeats a call it is nested in, and the
\* top-level call returns.
C12_ResolveTerminates == []NoCallRepeats /\ <>(resolvePc = "done")

\* The same for chunk trees without a cycle only.
C12_AcyclicTerminates ==
    /\ [](Acyclic(manifestStore) => NoCallRepeats)
    /\ Acyclic(manifestStore) ~> (resolvePc = "done")

\* On chunk trees without a cycle the stepwise resolver returns what
\* ResolveChunkManifest returns.
StepsAgreeWithCall ==
    (resolvePc = "done" /\ Acyclic(manifestStore))
        => resolveOut = ResolveChunkManifest(manifestStore, resolveIn.chunks,
                                             resolveIn.startOffset, resolveIn.stopOffset)

\* The last finished attempt failed retryably.
LastFailedRetryably ==
    /\ retLog # <<>>
    /\ retLog[Len(retLog)].shouldRetry /\ retLog[Len(retLog)].err # NilErr

\* 3^k and 2^k.
RECURSIVE Pow(_, _)
Pow(b, k) == IF k = 0 THEN 1 ELSE b * Pow(b, k - 1)

\* The k-th sleep lasts 1.5^(k-1) seconds; a sleep follows only a round that
\* made an attempt and whose last attempt failed retryably.
SleepSchedule ==
    /\ [](\A k \in 1 .. Len(sleepLog) :
            Pow(2, k - 1) * sleepLog[k] = Pow(3, k - 1) * Second)
    /\ [][sleepLog' # sleepLog =>
            /\ sleepLog' = Append(sleepLog, waitTime)
            /\ urlStrings # <<>> /\ urlIdx = Len(urlStrings)
            /\ LastFailedRetryably
            /\ Len(retLog) = Len(urlStrings) * Len(sleepLog')]_vars

\* The fetch has returned after a round that failed retryably: it gave up.
GaveUp == pc = "done" /\ sleepLog # <<>> /\ LastFailedRetryably

\* C13 as stated: sleeps of 1, 1.5, 2.25, ... time units, each after a round
\* whose last attempt failed retryably; after a sleep a new round is started
\* unless the wait exceeds the ceiling, and when it does the fetch gives up
\* and returns the last error.
C13_BackoffUntilWaitExceeds ==
    /\ SleepSchedule
    /\ [][(pc = "outer" /\ sleepLog # <<>>) =>
            IF waitTime > RetryWaitTime THEN pc' = "done" ELSE pc' = "inner"]_vars
    /\ [](GaveUp => /\ waitTime > RetryWaitTime
                    /\ err = retLog[Len(retLog)].err)

\* C13 amended: the same, with a new round started unless the wait has
\* reached or exceeds the ceiling.
C13_BackoffUntilWaitReaches ==
    /\ SleepSchedule
    /\ [][(pc = "outer" /\ sleepLog # <<>>) =>
            IF waitTime >= RetryWaitTime THEN pc' = "done" ELSE pc' = "inner"]_vars
    /\ [](GaveUp => /\ waitTime >= RetryWaitTime
                    /\ err = retLog[Len(retLog)].err)

\* With a ceiling of 3 s a whole-chunk fetch slept 1 s, 1.5 s and 2.25 s after
\* three failed rounds and gave up at a wait of 3.375 s.
C13_Witness ==
    /\ mode = "stream" /\ GaveUp
    /\ RetryWaitTime = 3 * Second
    /\ sleepLog = <<Second, 3 * (Second \div 2), 9 * (Second \div 4)>>
    /\ waitTime = 27 * (Second \div 8)
    /\ err = TransportErr(Len(attemptLog))

\* Some finished attempt returned err == nil.
SuccessSeen == \E i \in 1 .. Len(retLog) : retLog[i].err = NilErr

\* C14: the k-th attempt of a round goes to the k-th location of the lookup's
\* list (so each location is attempted at most once per round, in order); an
\* attempt is started only when there is none before it or the one before it
\* failed retryably; and once an attempt has returned err == nil there is no
\* further attempt and no sleep, and the fetch returns nil.
C14_RoundOrdering ==
    /\ [](/\ \A k \in 1 .. Len(attemptLog) :
               /\ urlStrings # <<>>
               /\ attemptLog[k].host
                     = urlStrings[((k - 1) % Len(urlStrings)) + 1].host
           /\ Len(attemptLog) <= Len(urlStrings) * (Len(sleepLog) + 1)
           /\ Len(attemptLog) >= Len(urlStrings) * Len(sleepLog))
    /\ [][attemptLog' # attemptLog =>
            /\ Len(attemptLog') = Len(attemptLog) + 1
            /\ Len(retLog) = Len(attemptLog)
            /\ (retLog = <<>> \/ LastFailedRetryably)]_vars
    /\ [][SuccessSeen => /\ attemptLog' = attemptLog
                         /\ retLog' = retLog
                         /\ sleepLog' = sleepLog
                         /\ err' = NilErr]_vars
    /\ [](SuccessSeen => /\ pc \in {"post", "done"}
                         /\ retLog[Len(retLog)].err = NilErr
                         /\ err = NilErr)

\* A range fetch over two locations failed on the first, on the second and,
\* after one sleep, succeeded on the first again, and returned nil.
C14_Witness ==
    /\ mode = "range" /\ pc = "done" /\ err = NilErr
    /\ Len(urlStrings) = 2
    /\ Len(attemptLog) = 3
    /\ attemptLog[1].host = urlStrings[1].host
    /\ attemptLog[2].host = urlStrings[2].host
    /\ attemptLog[3].host = urlStrings[1].host
    /\ sleepLog = <<Second>>
    /\ retLog[3].err = NilErr

\* C15: in a range fetch 0 <= n <= len(buffer) at every point, however many
\* bytes the transport delivers; n counts what the attempt in progress (or the
\* last one) has copied, min(bytes it delivered, len(buffer)), and the first n
\* bytes of the buffer are the first n bytes that attempt delivered; so it is
\* when the fetch has succeeded after failed attempts on other replicas.
C15_RangeBufferIsLastAttempts ==
    mode = "range" =>
        /\ 0 <= n /\ n <= Len(buffer)
        /\ n = Min(streamPos, Len(buffer))
        /\ (attemptLog = <<>>) => n = 0
        /\ \A i \in 1 .. n :
              buffer[i] = ReplicaContent(attemptLog[Len(attemptLog)].host)[offset + i]

\* A range fetch into two bytes failed on the first replica after filling the
\* buffer and succeeded on the second, which delivered three bytes in more
\* than one piece: the buffer holds the second replica's first two bytes.
C15_Witness ==
    /\ mode = "range" /\ pc = "done" /\ err = NilErr
    /\ offset = 0 /\ Len(buffer) = 2
    /\ Len(retLog) = 2 /\ retLog[1].err # NilErr
    /\ attemptLog[2].host = 2
    /\ streamPos = 3 /\ n = 2
    /\ buffer = SubSeq(ReplicaContent(2), 1, 2)

\* A retry engine that knows no mode, run on a location list, a ceiling and
\* the outcomes (shouldRetry, err) of the attempts finished so
\* far: the locations attempted, the sleeps taken, whether the fetch has
\* returned, and the error it returned. `wait` is the round's wait, j the
\* number of locations the round has tried, k the number of outcomes used.
EngineState(hosts, sleeps, finished, e) ==
    [hosts |-> hosts, sleeps |-> sleeps, finished |-> finished, err |-> e]

RECURSIVE Engine(_, _, _, _, _, _, _, _, _)
Engine(urls, ceiling, outs, wait, j, k, hosts, sleeps, last) ==
    IF wait >= ceiling
    THEN EngineState(hosts, sleeps, TRUE, last.err)
    ELSE IF j < Len(urls)
    THEN \* the next location of the round
         IF k >= Len(outs)
         THEN EngineState(Append(hosts, urls[j + 1].host), sleeps, FALSE, last.err)
         ELSE LET out == outs[k + 1] IN
              IF out.shouldRetry /\ out.err # NilErr
              THEN Engine(urls, ceiling, outs, wait, j + 1, k + 1,
                          Append(hosts, urls[j + 1].host), sleeps, out)
              ELSE EngineState(Append(hosts, urls[j + 1].host), sleeps, TRUE, out.err)
    ELSE \* the round is over
         IF last.shouldRetry /\ last.err # NilErr
         THEN Engine(urls, ceiling, outs, (3 * wait) \div 2, 0, k, hosts,
                     Append(sleeps, wait), last)
         ELSE EngineState(hosts, sleeps, TRUE, last.err)

EngineRun(urls, ceiling, outs) ==
    Engine(urls, ceiling, outs, Second, 0, 0, <<>>, <<>>,
           [shouldRetry |-> FALSE, err |-> NilErr])

\* C16: whole-chunk fetch and range fetch are the same function of the
\* location list, the ceiling and the transport's outcomes: whenever an
\* attempt is in progress or the fetch has returned, the locations attempted
\* so far, the sleeps taken so far and the error returned are what the one
\* retry engine yields on these inputs, whichever the mode.
C16_ModesShareRetryEngine ==
    (pc \in {"read", "done"} /\ err # LookupErr) =>
        LET run == EngineRun(urlStrings, RetryWaitTime, retLog) IN
        /\ [k \in 1 .. Len(attemptLog) |-> attemptLog[k].host] = run.hosts
        /\ sleepLog = run.sleeps
        /\ run.finished = (pc = "done")
        /\ (pc = "done") => err = run.err

\* A whole-chunk fetch over two locations failed a round, slept, failed on the
\* first location again and was ended by a terminal failure on the second.
C16_Witness ==
    /\ mode = "stream" /\ pc = "done"
    /\ Len(urlStrings) = 2 /\ Len(attemptLog) = 4 /\ sleepLog = <<Second>>
    /\ ~retLog[4].shouldRetry /\ err = TransportErr(4)
    /\ EngineRun(urlStrings, RetryWaitTime, retLog).hosts = <<1, 2, 1, 2>>

\* The manifest chunks of the resolve calls whose declared range fails the
\* overlap test against the call's range.
ManifestsOutOfRange ==
    {c \in {ManifestM, ManifestN} : ~Covers(c, InStart, InStop)}

\* C17: a manifest chunk whose range [offset, offset+size) fails the overlap
\* test against [startOffset, stopOffset) is never fetched, is not among the
\* manifests returned, and is not what the call fails on: when the manifests
\* in range decode the call returns no error, unreachable or corrupt as the
\* ones out of range may be.
C17_OutOfRangeManifestUntouched ==
    ResolveDone =>
        /\ \A c \in ManifestsOutOfRange :
              /\ \A i \in 1 .. Len(resolveOut.fetched) : resolveOut.fetched[i] # c.fileId
              /\ \A i \in 1 .. Len(resolveOut.manifestChunks) :
                     resolveOut.manifestChunks[i] # c
              /\ resolveOut.err.of # c.fileId
        /\ ~TraversalFails(manifestStore, InChunks, InStart, InStop)
              => resolveOut.err = NilErr

\* The call over [99,101) took manifest M, whose children are a leaf and the
\* manifest N of range [150,200), which cannot be fetched: only M was fetched
\* and the call returned no error.
C17_Witness ==
    /\ ResolveDone
    /\ InChunks = <<LeafA, ManifestM>> /\ InStart = 99 /\ InStop = 101
    /\ Children(manifestStore, ManifestM) = <<LeafB, ManifestN>>
    /\ Decodes(manifestStore, ManifestM)
    /\ manifestStore[ManifestN.fileId].fetchFails
    /\ resolveOut.fetched = <<ManifestM.fileId>>
    /\ resolveOut.err = NilErr

\* C18: whenever fetchWholeChunk or fetchChunkRange returns a nil error, an
\* attempt was made and returned err == nil, whatever the lookup returned (an
\* empty location list included) and whatever the ceiling (one not above the
\* first wait included).
C18_NoVacuousSuccess ==
    (pc = "done" /\ err = NilErr) => SuccessSeen

\* The same for fetches whose lookup returned a location and whose ceiling is
\* above the first wait.
C18_SuccessHasAnAttempt ==
    (pc = "done" /\ err = NilErr /\ urlStrings # <<>> /\ RetryWaitTime > Second)
        => SuccessSeen

\* The input of the compact call holds no manifest chunk.
LeafOnlyInput == InputManifests = <<>>

\* C19: with a store that returns the bytes it was given and a decode that
\* inverts the encode, for a leaf-only input and any batch size, resolving the
\* output of a successful Compact over the whole file returns no error, the
\* input's chunks, each once and in input order, as data chunks, and the
\* manifest chunks Compact made as manifest chunks.
C19_CompactThenResolveIsInput ==
    (ResolveDone /\ CompactDone /\ LeafOnlyInput) =>
        /\ resolveOut.err = NilErr
        /\ resolveOut.dataChunks = compactIn.inputChunks
        /\ resolveOut.manifestChunks = compactOut.merged

\* What the code returns there: the manifest chunks made, and of the input's
\* chunks only those left over after the last full batch.
C19_ResolveReturnsLeftoverOnly ==
    (ResolveDone /\ CompactDone /\ LeafOnlyInput) =>
        /\ resolveOut.err = NilErr
        /\ resolveOut.dataChunks
              = SubSeq(InputLeaves, Len(InputLeaves) - Leftover + 1, Len(InputLeaves))
        /\ resolveOut.manifestChunks = compactOut.merged
        /\ \A k \in 1 .. Len(compactOut.saved) :
              Unmarshal(manifestStore[compactOut.saved[k].fileId].payload).chunks = Batch(k)

\* C20: a Compact of the list a successful Compact returned, with the same
\* batch size, returns that list, in that order, and calls neither the merge
\* nor the store function; and a successful Compact calls them once per full
\* batch of the input's leaf chunks, on those leaves alone: a manifest chunk
\* of the input is never put in a new manifest.
C20_CompactIdempotent ==
    /\ (compactPc = "again") =>
           /\ compactAgain.err = NilErr
           /\ compactAgain.chunks = compactOut.chunks
           /\ compactAgain.mergeCalls = 0
           /\ compactAgain.saved = <<>>
    /\ (compactPc \in {"done", "again"} /\ compactOut.err = NilErr) =>
           /\ compactOut.mergeCalls = FullBatches
           /\ Len(compactOut.saved) = FullBatches
           /\ \A k \in 1 .. Len(compactOut.saved) :
                 LET kids == Unmarshal(compactOut.saved[k].payload).chunks IN
                 /\ kids = Batch(k)
                 /\ \A j \in 1 .. Len(kids) : ~kids[j].isChunkManifest

\* The first call put two of three leaves in one manifest next to the two
\* manifest chunks of the input; the second call returned the same four chunks.
C20_Witness ==
    /\ compactPc = "again"
    /\ BatchSize = 2 /\ Len(InputLeaves) = 3 /\ Len(InputManifests) = 2
    /\ Len(compactOut.saved) = 1
    /\ Len(compactOut.chunks) = 4
    /\ compactAgain.chunks = compactOut.chunks

====
